---- MODULE Spec2Model ----
(***************************************************************************)
(* A model of VideoSplitPro (src/ad.py): the clip segmenter, the           *)
(* scorer/selector and exporter of split_video_into_clips, and the         *)
(* interactive editor of interactive_modification / modify_clip.           *)
(*                                                                         *)
(* Times are integers (one unit = one second).  A peak is the pair         *)
(* <<start, end>>, a cut is <<start, end, peaks>> and a rated clip is      *)
(* <<start, end, rating>>, as the tuples of the source.                    *)
(***************************************************************************)
EXTENDS Integers, Sequences, FiniteSets, TLC

VARIABLES
    peak_times,      \* detect_audio_peaks(audio): the list of peaks (line 47)
    min_duration,    \* parameter of split_video_into_clips
    max_duration,    \* parameter of split_video_into_clips
    num_clips,       \* parameter of split_video_into_clips
    video_duration,  \* video.duration of the input file
    pc,              \* position of the program
    idx,             \* index of the next peak of the for loop (line 55), 1-based
    current_start,   \* line 51
    current_end,     \* line 52
    current_peaks,   \* line 53
    cuts,            \* line 50
    rated_clips,     \* lines 72-75
    export_i,        \* index of the next clip of the export loop (line 78), 1-based
    exported,        \* the clips written by the export loop, in order
    files,           \* the output folder: file name |-> the ranges the file holds
    handles,         \* number of VideoFileClip handles open
    clips,           \* the list interactive_modification works on
    clip_index,      \* modify_clip parameter (1-based), 0 outside modify_clip
    start_time,      \* modify_clip parameter
    end_time,        \* modify_clip parameter
    first_number,    \* the first number read by a command that reads two
    exception,       \* the exception that ended the program, "" if none
    earlier          \* what the earlier calls of split_video_into_clips returned

vars == <<peak_times, min_duration, max_duration, num_clips, video_duration, pc,
          idx, current_start, current_end, current_peaks, cuts, rated_clips,
          export_i, exported, files, handles, clips, clip_index, start_time,
          end_time, first_number, exception, earlier>>

segVars == <<idx, current_start, current_end, current_peaks, cuts>>
editVars == <<clips, clip_index, start_time, end_time, first_number>>
inputVars == <<peak_times, min_duration, max_duration, num_clips, video_duration>>

----------------------------------------------------------------------------
(* Bounds of the model *)

\* peaks of the generic inputs lie in 0..MaxTime
MaxTime == 6
\* the generic inputs hold at most MaxPeaks peaks
MaxPeaks == 3
(* Defaults of split_video_into_clips *)
DefaultMinDuration == 30
DefaultMaxDuration == 90

----------------------------------------------------------------------------
(* Inputs *)

Min(a, b) == IF a < b THEN a ELSE b
Max(a, b) == IF a > b THEN a ELSE b

\* A peak list as detect_nonsilent yields it: every peak has start < end, the
\* peaks are ordered by start and do not overlap.
IsPeakList(ps) ==
    /\ \A i \in 1..Len(ps) : ps[i][1] >= 0 /\ ps[i][1] < ps[i][2]
    /\ \A i \in 1..(Len(ps) - 1) : ps[i][2] <= ps[i + 1][1]

GenericPeak == {p \in (0..MaxTime) \X (0..MaxTime) : p[1] < p[2]}

GenericPeakLists ==
    UNION {{ps \in [1..n -> GenericPeak] : IsPeakList(ps)} : n \in 0..MaxPeaks}

GenericMinDurations == {0, 2, 3}
GenericMaxDurations == {3, 5}
GenericNumClips == {-1, 0, 1, 2, 5}

GenericInputs ==
    [peaks : GenericPeakLists, min : GenericMinDurations,
     max : GenericMaxDurations, n : GenericNumClips, duration : {MaxTime + 1}]

\* The scenarios of the specification's section 8, and of __main__.
TwelvePeaks ==
    <<<<0, 4>>, <<5, 10>>,
      <<10, 11>>, <<12, 13>>, <<14, 15>>, <<16, 17>>, <<18, 20>>,
      <<20, 21>>, <<22, 23>>, <<24, 25>>, <<26, 27>>, <<28, 30>>>>

ExampleInputs ==
    {[peaks |-> <<<<0, 10>>, <<15, 20>>, <<25, 40>>>>, min |-> 5, max |-> 100,
      n |-> 5, duration |-> 40],
     [peaks |-> <<<<0, 10>>, <<15, 95>>>>, min |-> DefaultMinDuration,
      max |-> DefaultMaxDuration, n |-> 5, duration |-> 95],
     [peaks |-> <<<<0, 10>>, <<15, 95>>>>, min |-> 10,
      max |-> DefaultMaxDuration, n |-> 5, duration |-> 95],
     [peaks |-> TwelvePeaks, min |-> 5, max |-> 10, n |-> 2, duration |-> 30],
     [peaks |-> <<<<100, 110>>, <<120, 130>>, <<140, 160>>>>,
      min |-> DefaultMinDuration, max |-> 89, n |-> 1, duration |-> 200]}

SegInputs == GenericInputs \cup ExampleInputs

----------------------------------------------------------------------------
(* split_video_into_clips: the segmenter loop *)

\* line 57: the peak's end would take the running segment past the cap
ExceedsMaxByStart(peak) == (peak[1] - current_start) > max_duration
ExceedsMaxNonStrict(peak) == (peak[2] - current_start) >= max_duration
ExceedsMaxFromEnd(peak) == (peak[2] - current_end) > max_duration
ExceedsMax(peak) == (peak[2] - current_start) > max_duration

\* lines 58 and 68: the running segment meets the minimum duration
MeetsMinOffByOne == (current_end - current_start) >= min_duration - 1
MeetsMin == (current_end - current_start) >= min_duration

\* lines 58-59 and 68-69: the running segment is emitted if it meets the minimum
EmitAlways == Append(cuts, <<current_start, current_end, current_peaks>>)
Emit == IF MeetsMin
        THEN Append(cuts, <<current_start, current_end, current_peaks>>)
        ELSE cuts

\* line 60: the new running segment starts where the peak starts
SeedStartAtEnd(peak) == current_end
SeedStartKept(peak) == current_start
SeedStart(peak) == peak[1]

\* lines 55-62, the branch that closes the running segment and seeds a new one
LoopClose ==
    /\ pc = "loop"
    /\ idx <= Len(peak_times)
    /\ LET peak == peak_times[idx] IN
        /\ ExceedsMax(peak)
        /\ cuts' = Emit
        /\ current_start' = SeedStart(peak)
        /\ current_end' = peak[2]
        /\ current_peaks' = <<peak>>
    /\ idx' = idx + 1
    /\ UNCHANGED <<inputVars, earlier, pc, rated_clips, export_i, exported, files,
                   handles, editVars, exception>>

\* lines 55-57 and 63-65, the branch that absorbs the peak
LoopAbsorb ==
    /\ pc = "loop"
    /\ idx <= Len(peak_times)
    /\ LET peak == peak_times[idx] IN
        /\ ~ExceedsMax(peak)
        /\ current_end' = peak[2]
        /\ current_peaks' = Append(current_peaks, peak)
    /\ idx' = idx + 1
    /\ UNCHANGED <<inputVars, earlier, pc, current_start, cuts, rated_clips, export_i,
                   exported, files, handles, editVars, exception>>

\* lines 67-69: the last running segment
FinalSegment ==
    /\ pc = "loop"
    /\ idx > Len(peak_times)
    /\ cuts' = Emit
    /\ pc' = "segmented"
    /\ UNCHANGED <<inputVars, earlier, idx, current_start, current_end, current_peaks,
                   rated_clips, export_i, exported, files, handles, editVars,
                   exception>>

----------------------------------------------------------------------------
(* split_video_into_clips: rating, selection, export *)

\* lines 20-27
rate_clipOffByOne(clip_peaks) == Len(clip_peaks) + 1
rate_clip(clip_peaks) == Len(clip_peaks)

\* line 72
Rated(cs) == [i \in 1..Len(cs) |-> <<cs[i][1], cs[i][2], rate_clip(cs[i][3])>>]

\* list.sort(key=lambda x: x[2], reverse=True), line 75: a stable sort, the
\* elements of equal key keep their order.  InsertByRating puts x behind every
\* element of sorted whose rating is at least x's.
RECURSIVE InsertByRatingUnstable(_, _)
InsertByRatingUnstable(sorted, x) ==
    IF sorted = <<>> THEN <<x>>
    ELSE IF sorted[1][3] > x[3]
         THEN <<sorted[1]>> \o InsertByRatingUnstable(Tail(sorted), x)
         ELSE <<x>> \o sorted

RECURSIVE InsertByRating(_, _)
InsertByRating(sorted, x) ==
    IF sorted = <<>> THEN <<x>>
    ELSE IF sorted[1][3] >= x[3]
         THEN <<sorted[1]>> \o InsertByRating(Tail(sorted), x)
         ELSE <<x>> \o sorted

RECURSIVE SortByRating(_)
SortByRating(s) ==
    IF s = <<>> THEN <<>>
    ELSE InsertByRating(SortByRating(SubSeq(s, 1, Len(s) - 1)), s[Len(s)])

\* the slice s[:n] of lines 78 and 88: a negative n counts from the end
SliceTo(s, n) ==
    IF n >= 0 THEN SubSeq(s, 1, Min(n, Len(s)))
    ELSE SubSeq(s, 1, Max(Len(s) + n, 0))

\* lines 71-75
RateAndSort ==
    /\ pc = "segmented"
    /\ rated_clips' = SortByRating(Rated(cuts))
    /\ export_i' = 1
    /\ pc' = "export"
    /\ UNCHANGED <<inputVars, earlier, segVars, exported, files, handles, editVars,
                   exception>>

\* the name of line 80, clip_{i + 1}_rating_{rating}.mp4 (i counts from 1 here)
RatingFile(i, rating) == <<"rating", i, rating>>

\* write_videofile: the file of that name now holds the ranges given
WriteFile(name, ranges) == (name :> ranges) @@ files

\* lines 78-82, one iteration of the export loop that succeeds
ExportClip ==
    /\ pc = "export"
    /\ export_i <= Len(SliceTo(rated_clips, num_clips))
    /\ LET c == SliceTo(rated_clips, num_clips)[export_i] IN
        /\ files' = WriteFile(RatingFile(export_i, c[3]), <<(<<c[1], c[2]>>)>>)
        /\ exported' = Append(exported, c)
    /\ export_i' = export_i + 1
    /\ UNCHANGED <<inputVars, earlier, segVars, pc, rated_clips, handles, editVars,
                   exception>>

\* lines 79-81: subclip or write_videofile raises; nothing catches it, and the
\* file may or may not have been created
ExportFails ==
    /\ pc = "export"
    /\ export_i <= Len(SliceTo(rated_clips, num_clips))
    /\ LET c == SliceTo(rated_clips, num_clips)[export_i] IN
        \/ UNCHANGED files
        \/ files' = WriteFile(RatingFile(export_i, c[3]), <<>>)
    /\ pc' = "crashed"
    /\ exception' = "EncodeError"
    /\ UNCHANGED <<inputVars, earlier, segVars, rated_clips, export_i, exported, handles,
                   editVars>>

\* lines 84-88, and line 260: the list returned is the editor's list
CloseAndReturn ==
    /\ pc = "export"
    /\ export_i > Len(SliceTo(rated_clips, num_clips))
    /\ handles' = handles - 1
    /\ clips' = SliceTo(rated_clips, num_clips)
    /\ pc' = "MENU"
    /\ UNCHANGED <<inputVars, earlier, segVars, rated_clips, export_i, exported, files,
                   clip_index, start_time, end_time, first_number, exception>>

----------------------------------------------------------------------------
(* Specification of split_video_into_clips alone *)

\* the state after lines 41-53
InitWith(in, fs) ==
    /\ peak_times = in.peaks
    /\ min_duration = in.min
    /\ max_duration = in.max
    /\ num_clips = in.n
    /\ video_duration = in.duration
    /\ pc = "loop"
    /\ idx = 1
    /\ current_start = 0
    /\ current_end = 0
    /\ current_peaks = <<>>
    /\ cuts = <<>>
    /\ rated_clips = <<>>
    /\ export_i = 1
    /\ exported = <<>>
    /\ files = fs
    /\ handles = 1
    /\ earlier = <<>>
    /\ clips = <<>>
    /\ clip_index = 0
    /\ start_time = 0
    /\ end_time = 0
    /\ first_number = 0
    /\ exception = ""

NoFiles == [name \in {} |-> <<>>]

SegInit == \E in \in SegInputs : InitWith(in, NoFiles)

SegNext ==
    \/ LoopClose
    \/ LoopAbsorb
    \/ FinalSegment
    \/ RateAndSort
    \/ ExportClip
    \/ ExportFails
    \/ CloseAndReturn

SegSpec == SegInit /\ [][SegNext]_vars

----------------------------------------------------------------------------
(* interactive_modification and modify_clip *)

\* modify_clip is entered at most MaxCalls times
MaxCalls == 2

\* the lines a user types at a menu prompt; "x" is no token of any menu
MenuTokens == {"0", "1", "2", "3", "4", "x"}
\* the numbers a user types at a seconds prompt
Seconds == {-40, 0, 20, 40}

LeaveModifyClip ==
    /\ clip_index' = 0
    /\ start_time' = 0
    /\ end_time' = 0
    /\ first_number' = 0

\* lines 230-232: 'done' in any case ends the loop; then line 262
MenuDone ==
    /\ pc = "MENU"
    /\ pc' = "done"
    /\ UNCHANGED <<inputVars, earlier, segVars, rated_clips, export_i, exported, files,
                   handles, editVars, exception>>

\* lines 234-238: a number outside 1..len(clips)
MenuOutOfRange ==
    /\ pc = "MENU"
    /\ \E n \in {0, Len(clips) + 1} :
        /\ n < 1 \/ n > Len(clips)
    /\ UNCHANGED <<inputVars, earlier, segVars, pc, rated_clips, export_i, exported,
                   files, handles, editVars, exception>>

\* lines 234-235 and 239-241: int() raises ValueError, which is caught
MenuNotANumber ==
    /\ pc = "MENU"
    /\ UNCHANGED <<inputVars, earlier, segVars, pc, rated_clips, export_i, exported,
                   files, handles, editVars, exception>>

\* lines 234-236, 244 and 129: modify_clip is called and opens the video.
\* No line of modify_clip closes it, so handles counts the calls made.
MenuSelect ==
    /\ pc = "MENU"
    /\ handles < MaxCalls
    /\ \E n \in 1..Len(clips) :
        /\ clip_index' = n
        /\ start_time' = clips[n][1]
        /\ end_time' = clips[n][2]
    /\ handles' = handles + 1
    /\ pc' = "SELECTED"
    /\ UNCHANGED <<inputVars, earlier, segVars, rated_clips, export_i, exported, files,
                   clips, first_number, exception>>

\* lines 133-138: Back
SelectedBack ==
    /\ pc = "SELECTED"
    /\ pc' = "MENU"
    /\ LeaveModifyClip
    /\ UNCHANGED <<inputVars, earlier, segVars, rated_clips, export_i, exported, files,
                   handles, clips, exception>>

\* lines 139-141 and 160-162: Add or Trim
SelectedSubmenu ==
    /\ pc = "SELECTED"
    /\ \E t \in {"1", "2"} : pc' = IF t = "1" THEN "ADD_SUBMENU" ELSE "TRIM_SUBMENU"
    /\ UNCHANGED <<inputVars, earlier, segVars, rated_clips, export_i, exported, files,
                   handles, editVars, exception>>

\* lines 197-199
SelectedInvalid ==
    /\ pc = "SELECTED"
    /\ \E t \in MenuTokens \ {"0", "1", "2"} : TRUE
    /\ UNCHANGED <<inputVars, earlier, segVars, pc, rated_clips, export_i, exported,
                   files, handles, editVars, exception>>

\* the seconds prompt an Add choice leads to (lines 144-156)
AddPrompt(t) == CASE t = "1" -> "ADD_FRONT"
                  [] t = "2" -> "ADD_BACK"
                  [] t = "3" -> "ADD_BOTH_FRONT"

\* the seconds prompt a Trim choice leads to (lines 165-180)
TrimPrompt(t) == CASE t = "1" -> "TRIM_FRONT"
                   [] t = "2" -> "TRIM_BACK"
                   [] t = "3" -> "TRIM_BOTH_FRONT"
                   [] t = "4" -> "MIDDLE_START"

\* lines 141-143 and 162-164: Back in a submenu, `continue`
SubmenuBack ==
    /\ pc \in {"ADD_SUBMENU", "TRIM_SUBMENU"}
    /\ pc' = "SELECTED"
    /\ UNCHANGED <<inputVars, earlier, segVars, rated_clips, export_i, exported, files,
                   handles, editVars, exception>>

\* lines 144, 148, 152
AddChoice ==
    /\ pc = "ADD_SUBMENU"
    /\ \E t \in {"1", "2", "3"} : pc' = AddPrompt(t)
    /\ UNCHANGED <<inputVars, earlier, segVars, rated_clips, export_i, exported, files,
                   handles, editVars, exception>>

\* lines 165, 169, 173, 178
TrimChoice ==
    /\ pc = "TRIM_SUBMENU"
    /\ \E t \in {"1", "2", "3", "4"} : pc' = TrimPrompt(t)
    /\ UNCHANGED <<inputVars, earlier, segVars, rated_clips, export_i, exported, files,
                   handles, editVars, exception>>

\* lines 157-159 and 194-196
SubmenuInvalid ==
    /\ \/ pc = "ADD_SUBMENU" /\ \E t \in MenuTokens \ {"0", "1", "2", "3"} : TRUE
       \/ pc = "TRIM_SUBMENU" /\ \E t \in MenuTokens \ {"0", "1", "2", "3", "4"} : TRUE
    /\ pc' = "SELECTED"
    /\ UNCHANGED <<inputVars, earlier, segVars, rated_clips, export_i, exported, files,
                   handles, editVars, exception>>

\* the prompts that read the first of two numbers, and the prompt that follows
FirstPrompts == {"ADD_BOTH_FRONT", "TRIM_BOTH_FRONT", "MIDDLE_START"}
SecondPrompt(p) == CASE p = "ADD_BOTH_FRONT" -> "ADD_BOTH_BACK"
                     [] p = "TRIM_BOTH_FRONT" -> "TRIM_BOTH_BACK"
                     [] p = "MIDDLE_START" -> "MIDDLE_END"
\* the prompts whose number completes an Add or a Trim other than Middle
LastPrompts == {"ADD_FRONT", "ADD_BACK", "ADD_BOTH_BACK",
                "TRIM_FRONT", "TRIM_BACK", "TRIM_BOTH_BACK"}
NumberPrompts == FirstPrompts \cup LastPrompts \cup {"MIDDLE_END"}

\* lines 153, 174, 179: the first of two numbers
ReadFirstNumber ==
    /\ pc \in FirstPrompts
    /\ \E x \in Seconds : first_number' = x
    /\ pc' = SecondPrompt(pc)
    /\ UNCHANGED <<inputVars, earlier, segVars, rated_clips, export_i, exported, files,
                   handles, clips, clip_index, start_time, end_time,
                   exception>>

\* float(input(...)) of lines 145-180 on a line that is no number: ValueError,
\* which nothing catches
ReadMalformedNumber ==
    /\ pc \in NumberPrompts
    /\ pc' = "crashed"
    /\ exception' = "ValueError"
    /\ UNCHANGED <<inputVars, earlier, segVars, rated_clips, export_i, exported, files,
                   handles, editVars>>

\* lines 146-147, 150-151, 155-156, 167-168, 171-172, 176-177: the new bounds,
\* x being the number just read
NewStart(p, x) ==
    CASE p = "ADD_FRONT" -> Max(start_time - x, 0)
      [] p = "ADD_BACK" -> start_time
      [] p = "ADD_BOTH_BACK" -> Max(start_time - first_number, 0)
      [] p = "TRIM_FRONT" -> start_time + x
      [] p = "TRIM_BACK" -> start_time
      [] p = "TRIM_BOTH_BACK" -> start_time + first_number

\* NewEnd had the trims been guarded against crossing the new start
NewEndGuarded(p, x) ==
    CASE p = "ADD_FRONT" -> end_time
      [] p = "ADD_BACK" -> Min(end_time + x, video_duration)
      [] p = "ADD_BOTH_BACK" -> Min(end_time + x, video_duration)
      [] p = "TRIM_FRONT" -> end_time
      [] p = "TRIM_BACK" -> Max(end_time - x, start_time)
      [] p = "TRIM_BOTH_BACK" -> Max(end_time - x, start_time + first_number)

NewEnd(p, x) ==
    CASE p = "ADD_FRONT" -> end_time
      [] p = "ADD_BACK" -> Min(end_time + x, video_duration)
      [] p = "ADD_BOTH_BACK" -> Min(end_time + x, video_duration)
      [] p = "TRIM_FRONT" -> end_time
      [] p = "TRIM_BACK" -> end_time - x
      [] p = "TRIM_BOTH_BACK" -> end_time - x

\* lines 90-104
RECURSIVE UniqueFrom(_, _, _)
UniqueFrom(kind, index, counter) ==
    IF <<kind, index, counter>> \notin DOMAIN files
    THEN <<kind, index, counter>>
    ELSE UniqueFrom(kind, index, counter + 1)

\* get_unique_filename as a plausible slip would have it: number the file by
\* the count of the files of that base
get_unique_filenameByCount(kind, index) ==
    <<kind, index,
      1 + Cardinality({f \in DOMAIN files : f[1] = kind /\ f[2] = index})>>

get_unique_filenameFirst(kind, index) == <<kind, index, 1>>
get_unique_filename(kind, index) == UniqueFrom(kind, index, 1)

\* the selected entry overwritten by the modified clip
AppendModifiedInPlace(new_start, new_end) ==
    [clips EXCEPT ![clip_index] = <<new_start, new_end, 0>>]

\* line 210
AppendModified(new_start, new_end) == Append(clips, <<new_start, new_end, 0>>)

\* lines 191-192
AppendHalvesSwapped(middle_start, middle_end) ==
    clips \o <<(<<start_time + middle_end, end_time, 0>>),
               (<<start_time, start_time + middle_start, 0>>)>>
AppendHalves(middle_start, middle_end) ==
    clips \o <<(<<start_time, start_time + middle_start, 0>>),
               (<<start_time + middle_end, end_time, 0>>)>>

\* lines 201-211: the modified clip is exported, appended, and modify_clip ends
SaveModified ==
    /\ pc \in LastPrompts
    /\ \E x \in Seconds :
        LET new_start == NewStart(pc, x)
            new_end == NewEnd(pc, x)
        IN  /\ files' = WriteFile(get_unique_filename("modified", clip_index),
                                  <<(<<new_start, new_end>>)>>)
            /\ clips' = AppendModified(new_start, new_end)
    /\ pc' = "MENU"
    /\ LeaveModifyClip
    /\ UNCHANGED <<inputVars, earlier, segVars, rated_clips, export_i, exported, handles,
                   exception>>

\* lines 180-193: Trim Middle
SaveMiddleTrimmed ==
    /\ pc = "MIDDLE_END"
    /\ \E middle_end \in Seconds :
        LET middle_start == first_number IN
            /\ files' = WriteFile(get_unique_filename("middle_trimmed", clip_index),
                                  <<(<<start_time, start_time + middle_start>>),
                                    (<<start_time + middle_end, end_time>>)>>)
            /\ clips' = AppendHalves(middle_start, middle_end)
    /\ pc' = "MENU"
    /\ LeaveModifyClip
    /\ UNCHANGED <<inputVars, earlier, segVars, rated_clips, export_i, exported, handles,
                   exception>>

\* the encode raising after an entry was appended, as it would were the append
\* placed before write_videofile
EncodeFailsAfterAppend ==
    /\ pc \in LastPrompts \cup {"MIDDLE_END"}
    /\ clips' = Append(clips, <<start_time, start_time + first_number, 0>>)
    /\ pc' = "crashed"
    /\ exception' = "EncodeError"
    /\ UNCHANGED <<inputVars, earlier, segVars, rated_clips, export_i, exported, handles,
                   files, clip_index, start_time, end_time, first_number>>

\* lines 182-188 and 202-206: subclip, concatenate_videoclips or write_videofile
\* raises, as in the export loop
EncodeFails ==
    /\ pc \in LastPrompts \cup {"MIDDLE_END"}
    /\ \/ UNCHANGED files
       \/ files' = WriteFile(get_unique_filename(
                       IF pc = "MIDDLE_END" THEN "middle_trimmed" ELSE "modified",
                       clip_index), <<>>)
    /\ pc' = "crashed"
    /\ exception' = "EncodeError"
    /\ UNCHANGED <<inputVars, earlier, segVars, rated_clips, export_i, exported, handles,
                   editVars>>

----------------------------------------------------------------------------
(* Specification of the whole program, lines 246-262 *)

\* the inputs of the runs that go on into the editor
EditorInputs ==
    {[peaks |-> <<<<100, 110>>, <<120, 130>>, <<140, 160>>>>,
      min |-> DefaultMinDuration, max |-> 89, n |-> 1, duration |-> 170]}

Init == \E in \in EditorInputs : InitWith(in, NoFiles)

EditorNext ==
    \/ MenuDone
    \/ MenuOutOfRange
    \/ MenuNotANumber
    \/ MenuSelect
    \/ SelectedBack
    \/ SelectedSubmenu
    \/ SelectedInvalid
    \/ SubmenuBack
    \/ AddChoice
    \/ TrimChoice
    \/ SubmenuInvalid
    \/ ReadFirstNumber
    \/ ReadMalformedNumber
    \/ SaveModified
    \/ SaveMiddleTrimmed
    \/ EncodeFails

Next == SegNext \/ EditorNext

Spec == Init /\ [][Next]_vars

----------------------------------------------------------------------------
(* split_video_into_clips called again on the same input *)

\* split_video_into_clips is called at most MaxRuns times
MaxRuns == 2

\* the list of an earlier call, had it been kept (a list shared between calls)
CarriedCuts == cuts

\* cuts as a call starts with it (line 50)
FreshCuts == <<>>

\* what a call left behind: its local lists, the list returned, the folder
Outcome ==
    [cuts |-> cuts, rated_clips |-> rated_clips, returned |-> clips,
     files |-> files]

\* lines 41-53 of a further call, made once the call before has returned
CallAgain ==
    /\ pc = "MENU"
    /\ Len(earlier) < MaxRuns - 1
    /\ earlier' = Append(earlier, Outcome)
    /\ handles' = handles + 1
    /\ idx' = 1
    /\ current_start' = 0
    /\ current_end' = 0
    /\ current_peaks' = <<>>
    /\ cuts' = FreshCuts
    /\ rated_clips' = <<>>
    /\ export_i' = 1
    /\ exported' = <<>>
    /\ pc' = "loop"
    /\ UNCHANGED <<inputVars, files, clips, clip_index, start_time, end_time,
                   first_number, exception>>

TwiceNext ==
    \/ LoopClose
    \/ LoopAbsorb
    \/ FinalSegment
    \/ RateAndSort
    \/ ExportClip
    \/ ExportFails
    \/ CloseAndReturn
    \/ CallAgain

TwiceSpec == SegInit /\ [][TwiceNext]_vars

----------------------------------------------------------------------------
(* The program started on an output folder that holds files already *)

\* in the runs of FolderSpec modify_clip is entered at most MaxFolderCalls times
MaxFolderCalls == 1

\* what a file left by an earlier run holds
OldContent == <<(<<0, 1>>)>>

\* the folders the program is started on: files of earlier runs, with gaps in
\* the numbering or without
InitialFolders ==
    {[name \in names |-> OldContent] :
        names \in SUBSET {<<"modified", 1, 1>>, <<"modified", 1, 2>>,
                          <<"modified", 1, 3>>, <<"middle_trimmed", 1, 1>>}}

FolderInit == \E in \in EditorInputs : \E fs \in InitialFolders : InitWith(in, fs)

FolderNext ==
    \/ LoopClose
    \/ LoopAbsorb
    \/ FinalSegment
    \/ RateAndSort
    \/ ExportClip
    \/ ExportFails
    \/ CloseAndReturn
    \/ MenuDone
    \/ MenuOutOfRange
    \/ MenuNotANumber
    \/ (MenuSelect /\ handles' <= MaxFolderCalls)
    \/ SelectedBack
    \/ SelectedSubmenu
    \/ SelectedInvalid
    \/ SubmenuBack
    \/ AddChoice
    \/ TrimChoice
    \/ SubmenuInvalid
    \/ ReadFirstNumber
    \/ ReadMalformedNumber
    \/ SaveModified
    \/ SaveMiddleTrimmed
    \/ EncodeFails

FolderSpec == FolderInit /\ [][FolderNext]_vars

----------------------------------------------------------------------------
(* Properties of the segmenter and the selector *)

Duration(c) == c[2] - c[1]
LastEnd == peak_times[Len(peak_times)][2]
\* the peaks of the input that lie inside the clip c
PeaksInside(c) ==
    LET Inside(p) == c[1] <= p[1] /\ p[2] <= c[2] IN SelectSeq(peak_times, Inside)
\* the peak p was absorbed into a segment that was emitted
Emitted(p) ==
    \E i \in 1..Len(cuts) : \E j \in 1..Len(cuts[i][3]) : cuts[i][3][j] = p

\* C1: the segmenter never emits a candidate clip shorter than min_duration,
\* neither when a segment is closed inside the loop nor for the final segment.
C1_NoShortClip ==
    \A i \in 1..Len(cuts) : Duration(cuts[i]) >= min_duration

\* a run in which one segment was closed inside the loop and emitted, the final
\* segment was emitted too, and a segment that was too short was dropped
C1_Witness ==
    /\ pc = "segmented"
    /\ min_duration > 0
    /\ Len(cuts) >= 2
    /\ \E i \in 1..Len(peak_times) : ~Emitted(peak_times[i])

C3_NonOverlapping ==
    \A i, j \in 1..Len(cuts) :
        i # j => (cuts[i][2] <= cuts[j][1] \/ cuts[j][2] <= cuts[i][1])

\* three candidates, two of which touch
C3_Witness ==
    /\ pc = "segmented"
    /\ Len(cuts) >= 3
    /\ \E i \in 1..(Len(cuts) - 1) : cuts[i][2] = cuts[i + 1][1]

\* the candidates with their ratings, in segmentation order
Candidates == [i \in 1..Len(cuts) |-> <<cuts[i][1], cuts[i][2], Len(cuts[i][3])>>]
WithRating(s, r) == LET Has(c) == c[3] = r IN SelectSeq(s, Has)
FirstN(s, n) == SubSeq(s, 1, IF n < Len(s) THEN n ELSE Len(s))

\* C4: for a count num_clips >= 0 the selector returns the first num_clips
\* candidates in descending order of rating, candidates of equal rating in
\* segmentation order; the list returned is the list exported, in the same
\* order; the candidates (0,10,2),(10,20,5),(20,30,5) with num_clips = 2 yield
\* (10,20,5),(20,30,5).
C4_StableTopN ==
    (pc \in {"export", "MENU"}) =>
        /\ Len(rated_clips) = Len(cuts)
        /\ \A i \in 1..(Len(rated_clips) - 1) :
              rated_clips[i][3] >= rated_clips[i + 1][3]
        /\ \A r \in 0..Len(peak_times) :
              WithRating(rated_clips, r) = WithRating(Candidates, r)
        /\ pc = "MENU" => exported = clips
        /\ (pc = "MENU" /\ num_clips >= 0) =>
              clips = FirstN(rated_clips, num_clips)
        /\ (pc = "MENU" /\ num_clips = 2 /\
            Candidates = <<<<0, 10, 2>>, <<10, 20, 5>>, <<20, 30, 5>>>>) =>
              clips = <<<<10, 20, 5>>, <<20, 30, 5>>>>

\* the example of the claim: a tie of two clips behind a clip of lower rating
C4_Witness ==
    /\ pc = "MENU"
    /\ num_clips = 2
    /\ Candidates = <<<<0, 10, 2>>, <<10, 20, 5>>, <<20, 30, 5>>>>
    /\ exported = <<<<10, 20, 5>>, <<20, 30, 5>>>>

\* C5: the rating of every candidate is the number of peaks absorbed into its
\* running segment, and the peaks absorbed are exactly the peaks of the input
\* that lie inside the clip.
C5_RatingCountsAbsorbed ==
    /\ \A i \in 1..Len(cuts) : cuts[i][3] = PeaksInside(cuts[i])
    /\ (pc \in {"export", "MENU"}) =>
          \A i \in 1..Len(rated_clips) :
              rated_clips[i][3] = Len(PeaksInside(rated_clips[i]))

\* two rated clips of different ratings, one of them holding several peaks
C5_Witness ==
    /\ pc = "export"
    /\ \E i, j \in 1..Len(rated_clips) :
          rated_clips[i][3] >= 2 /\ rated_clips[j][3] = 1

SpecExample6 == <<<<0, 10>>, <<15, 95>>>>

\* C6 as stated: with the peaks (0,10),(15,95), max_duration = 90 and the
\* default min_duration the segmenter emits (0,10) with rating 1 and (15,95)
\* with rating 1.
C6_Original ==
    (pc = "export" /\ peak_times = SpecExample6 /\ max_duration = 90
     /\ min_duration = DefaultMinDuration) =>
        rated_clips = <<<<0, 10, 1>>, <<15, 95, 1>>>>

\* C6 amended: with the peaks (0,10),(15,95) and max_duration = 90 the first
\* segment is closed when the second peak is seen; with min_duration <= 10 the
\* clips are (0,10) and (15,95), both of rating 1, and with the default
\* min_duration = 30 the segment (0,10) is dropped and (15,95) is the only clip.
\* In general, when p.end - current_start > max_duration the running segment is
\* emitted if and only if it meets min_duration, and the new segment is p alone.
C6_CloseAndSeed ==
    [][ /\ (pc' = "export" /\ peak_times = SpecExample6 /\ max_duration = 90) =>
            /\ min_duration <= 10 =>
                  rated_clips' = <<<<0, 10, 1>>, <<15, 95, 1>>>>
            /\ min_duration = DefaultMinDuration =>
                  rated_clips' = <<<<15, 95, 1>>>>
        /\ (pc = "loop" /\ idx <= Len(peak_times)
            /\ peak_times[idx][2] - current_start > max_duration) =>
            /\ cuts' = IF current_end - current_start >= min_duration
                       THEN Append(cuts, <<current_start, current_end, current_peaks>>)
                       ELSE cuts
            /\ current_start' = peak_times[idx][1]
            /\ current_end' = peak_times[idx][2]
            /\ current_peaks' = <<peak_times[idx]>> ]_vars

\* the example under the default min_duration: (0,10) was closed and dropped
C6_Witness ==
    /\ pc = "export"
    /\ peak_times = SpecExample6
    /\ max_duration = 90
    /\ min_duration = DefaultMinDuration
    /\ rated_clips = <<<<15, 95, 1>>>>

\* C7: when every peak ends no later than max_duration and the last peak ends
\* at or after min_duration, exactly one clip is emitted, from 0 to the last
\* peak's end, rated with the number of peaks; (0,10),(15,20),(25,40) with
\* min_duration = 5 and max_duration = 100 yield (0,40) with rating 3.
C7_SingleClip ==
    /\ (pc \in {"segmented", "export"} /\ Len(peak_times) > 0
        /\ (\A i \in 1..Len(peak_times) : peak_times[i][2] <= max_duration)
        /\ LastEnd >= min_duration) =>
            /\ cuts = <<(<<0, LastEnd, peak_times>>)>>
            /\ pc = "export" => rated_clips = <<(<<0, LastEnd, Len(peak_times)>>)>>
    /\ (pc = "export" /\ peak_times = <<<<0, 10>>, <<15, 20>>, <<25, 40>>>>
        /\ min_duration = 5 /\ max_duration = 100) =>
            rated_clips = <<<<0, 40, 3>>>>

\* a run whose last peak ends exactly at max_duration and is absorbed
C7_Witness ==
    /\ pc = "export"
    /\ Len(peak_times) >= 2
    /\ peak_times[1][1] > 0
    /\ LastEnd = max_duration
    /\ rated_clips = <<(<<0, LastEnd, Len(peak_times)>>)>>

----------------------------------------------------------------------------
(* Properties of the editor *)

EditorPrompts == {"MENU", "SELECTED", "ADD_SUBMENU", "TRIM_SUBMENU"} \cup NumberPrompts
NewFiles == DOMAIN files' \ DOMAIN files
OldFilesKept == \A f \in DOMAIN files : f \in DOMAIN files' /\ files'[f] = files[f]
IsPrefix(s, t) == Len(s) <= Len(t) /\ SubSeq(t, 1, Len(s)) = s

\* the step property of C8, stated below
EditStep ==
    pc \in EditorPrompts =>
      /\ (pc \in LastPrompts /\ pc' = "MENU") =>
            /\ Len(clips') = Len(clips) + 1
            /\ IsPrefix(clips, clips')
            /\ clips'[Len(clips')][3] = 0
            /\ Cardinality(NewFiles) = 1
            /\ OldFilesKept
      /\ (pc = "MIDDLE_END" /\ pc' = "MENU") =>
            /\ Len(clips') = Len(clips) + 2
            /\ IsPrefix(clips, clips')
            /\ Cardinality(NewFiles) = 1
            /\ OldFilesKept
      /\ (pc \notin LastPrompts \cup {"MIDDLE_END"}) =>
            /\ files' = files
            /\ Len(clips') = Len(clips)
      /\ (pc' = "crashed") => Len(clips') = Len(clips)

\* C8: a successful Add or Trim (Front/Back/Both) exports exactly one new file
\* and appends exactly one entry, of rating 0; a successful Trim Middle exports
\* exactly one new file and appends exactly two entries; no other step of the
\* editor (Back, an invalid choice, an index out of range, 'done') exports a
\* file or changes the length of the clip list.
C8_OneExportPerEdit == [][EditStep]_vars

\* two edits of the same clip: an Add or Trim, and a Trim Middle before or
\* after it
C8_Witness ==
    /\ pc = "MENU"
    /\ Len(clips) = 4
    /\ \A i \in 2..4 : clips[i][3] = 0
    /\ {<<"modified", 1, 1>>, <<"middle_trimmed", 1, 1>>} \subseteq DOMAIN files
    /\ Cardinality(DOMAIN files) = 3

\* the step property of C9, stated below
TrimMiddleStep ==
    (pc = "MIDDLE_END" /\ pc' = "MENU") =>
      LET s == clips[clip_index][1]
          e == clips[clip_index][2]
          middle_start == first_number
      IN  /\ \E middle_end \in Seconds :
                /\ clips' = clips \o <<(<<s, s + middle_start, 0>>),
                                       (<<s + middle_end, e, 0>>)>>
                /\ \E f \in NewFiles :
                      /\ NewFiles = {f}
                      /\ f[1] = "middle_trimmed" /\ f[2] = clip_index
                      /\ files'[f] = <<(<<s, s + middle_start>>),
                                       (<<s + middle_end, e>>)>>
          /\ OldFilesKept
          /\ clip_index' = 0
          /\ (clips[clip_index] = <<100, 160, 3>> /\ middle_start = 20
              /\ clips'[Len(clips')][1] = 100 + 40) =>
                clips' = clips \o <<(<<100, 120, 0>>), (<<140, 160, 0>>)>>

\* C9: Trim Middle on the selected clip (s, e, r) with the numbers middle_start
\* and middle_end exports one file, the concatenation of (s, s + middle_start)
\* and (s + middle_end, e), appends (s, s + middle_start, 0) and then
\* (s + middle_end, e, 0), and returns to MENU with no further export;
\* (100,160,3) with 20 and 40 adds (100,120,0) and (140,160,0).
C9_TrimMiddle == [][TrimMiddleStep]_vars

\* the example of the claim
C9_Witness ==
    /\ pc = "MENU"
    /\ clips = <<(<<100, 160, 3>>), (<<100, 120, 0>>), (<<140, 160, 0>>)>>
    /\ <<"middle_trimmed", 1, 1>> \in DOMAIN files
    /\ files[<<"middle_trimmed", 1, 1>>] = <<(<<100, 120>>), (<<140, 160>>)>>
    /\ Cardinality(DOMAIN files) = 2

\* the step property of C10, stated below
InvalidInputStep ==
    (MenuOutOfRange \/ MenuNotANumber \/ SelectedInvalid \/ SubmenuInvalid
     \/ ReadMalformedNumber) =>
      /\ pc' \in EditorPrompts
      /\ exception' = ""
      /\ clips' = clips
      /\ files' = files

\* C10: an invalid input at any prompt of the editor (an unrecognised token at
\* a menu, a clip index out of range or no number at MENU, a malformed number
\* at a seconds prompt) is not fatal: the editor prompts again, and the clip
\* list and the exported files are unchanged.
C10_InvalidInputNeverFatal == [][InvalidInputStep]_vars

\* the prompts whose number completes an Add, and those that complete a Trim
AddLastPrompts == {"ADD_FRONT", "ADD_BACK", "ADD_BOTH_BACK"}
TrimLastPrompts == {"TRIM_FRONT", "TRIM_BACK", "TRIM_BOTH_BACK"}
InVideo(t) == 0 <= t /\ t <= video_duration

\* the step property of C11, stated below
AddStep ==
    (pc \in AddLastPrompts /\ pc' = "MENU"
     /\ InVideo(clips[clip_index][1]) /\ InVideo(clips[clip_index][2])) =>
        /\ InVideo(clips'[Len(clips')][1])
        /\ InVideo(clips'[Len(clips')][2])

\* C11: for a selected clip that lies within [0, video_duration] and any number
\* of seconds typed, the clip Add Front, Add Back or Add Both produces has its
\* start and its end inside [0, video_duration].
C11_AddStaysInVideo == [][AddStep]_vars

\* the step property of C12, stated below
UniqueNameStep ==
    pc \in EditorPrompts =>
      /\ OldFilesKept
      /\ \A f \in NewFiles :
            /\ f[1] = (IF pc = "MIDDLE_END" THEN "middle_trimmed" ELSE "modified")
            /\ f[2] = clip_index
            /\ f[3] >= 1
            /\ \A k \in 1..(f[3] - 1) : <<f[1], f[2], k>> \in DOMAIN files
      /\ (pc \in LastPrompts \cup {"MIDDLE_END"} /\ pc' = "MENU") =>
            Cardinality(NewFiles) = 1
      /\ (<<"modified", 1, 1>> \in DOMAIN files
          /\ <<"modified", 1, 2>> \notin DOMAIN files
          /\ pc \in LastPrompts /\ pc' = "MENU" /\ clip_index = 1) =>
            NewFiles = {<<"modified", 1, 2>>}

\* C12: get_unique_filename returns base_k for the smallest k >= 1 such that
\* base_k does not exist in the folder (an existing clip_1_modified_1.mp4 yields
\* clip_1_modified_2.mp4); the name returned is never that of an existing file,
\* so no export of the editor overwrites an earlier file.
C12_SmallestUnusedName == [][UniqueNameStep]_vars

\* a folder that held clip_1_modified_2 and clip_1_modified_3 but not
\* clip_1_modified_1: the export filled the gap and kept the old files
C12_Witness ==
    /\ pc = "MENU"
    /\ Len(clips) = 2
    /\ \A k \in 1..3 : <<"modified", 1, k>> \in DOMAIN files
    /\ files[<<"modified", 1, 1>>] # OldContent
    /\ files[<<"modified", 1, 2>>] = OldContent
    /\ files[<<"modified", 1, 3>>] = OldContent

\* C13: every video handle opened by split_video_into_clips or by modify_clip
\* is closed again on every exit path, so once the user has typed 'done' no
\* handle remains open.
C13_NoHandleLeftOpen == pc = "done" => handles = 0

\* C14: the segmenter is pure: called again on the same peaks and the same
\* parameters it builds the same candidate list, the same rated list and
\* returns the same clips, and writes the same files; nothing of the earlier
\* call is carried into the later one.
C14_SameInputSameCandidates ==
    \A r \in 1..Len(earlier) :
        /\ pc \in {"segmented", "export", "MENU"} => cuts = earlier[r].cuts
        /\ pc \in {"export", "MENU"} => rated_clips = earlier[r].rated_clips
        /\ pc = "MENU" =>
              /\ clips = earlier[r].returned
              /\ files = earlier[r].files

\* a second call has returned, and the calls built two candidates or more
C14_Witness ==
    /\ Len(earlier) = 1
    /\ pc = "MENU"
    /\ Len(cuts) >= 2
    /\ Len(clips) >= 1
    /\ cuts = earlier[1].cuts

\* the step property of C15, stated below
AppendOnlyStep ==
    pc \in EditorPrompts =>
      /\ IsPrefix(clips, clips')
      /\ OldFilesKept

\* C15: every editor operation is append-only on the clip list and on the
\* exported files: over any step of the editor (Add, Trim, Trim Middle, Back,
\* an invalid command) the clip list before the step is an unchanged prefix of
\* the list after it, and every file that existed keeps its name and content.
C15_AppendOnly == [][AppendOnlyStep]_vars

\* two edits were made, the second on an entry the first appended: the
\* original entry and its export are as split_video_into_clips left them
C15_Witness ==
    /\ pc = "MENU"
    /\ Len(clips) = 3
    /\ <<"modified", 1, 1>> \in DOMAIN files
    /\ <<"modified", 2, 1>> \in DOMAIN files
    /\ clips[1] = SliceTo(rated_clips, num_clips)[1]
    /\ \A i \in 1..Len(exported) :
          /\ RatingFile(i, exported[i][3]) \in DOMAIN files
          /\ files[RatingFile(i, exported[i][3])] =
                <<(<<exported[i][1], exported[i][2]>>)>>

\* what the spec says a Trim makes of the selected clip when back is typed at
\* the prompt the editor is at (front was typed before it for Trim Both, and
\* is the number at the prompt for Trim Front)
Trimmed(x) ==
    CASE pc = "TRIM_FRONT" -> <<start_time + x, end_time, 0>>
      [] pc = "TRIM_BACK" -> <<start_time, end_time - x, 0>>
      [] pc = "TRIM_BOTH_BACK" -> <<start_time + first_number, end_time - x, 0>>

\* the trim goes through with the number x: the clip is exported and appended
TrimGoesThrough(x) ==
    /\ SaveModified
    /\ clips' = Append(clips, Trimmed(x))
    /\ \E f \in NewFiles : files'[f] = <<(<<Trimmed(x)[1], Trimmed(x)[2]>>)>>

\* C16: Trim Front, Trim Back and Trim Both compute new_start = start + front
\* and new_end = end - back with no validation and no clamping: whatever number
\* is typed, the editor goes on to export and append exactly that entry, also
\* when its start exceeds its end.
C16_TrimUnguarded ==
    pc \in TrimLastPrompts => \A x \in Seconds : ENABLED TrimGoesThrough(x)

\* an entry whose start exceeds its end was exported and appended, and was then
\* itself selected and edited
C16_Witness ==
    /\ pc = "MENU"
    /\ Len(clips) = 3
    /\ clips[2][1] > clips[2][2]
    /\ <<"modified", 1, 1>> \in DOMAIN files
    /\ files[<<"modified", 1, 1>>] = <<(<<clips[2][1], clips[2][2]>>)>>
    /\ <<"modified", 2, 1>> \in DOMAIN files

\* the clip that is the peak p on its own
Alone(p) == <<p[1], p[2], <<p>>>>
OverLong(p) == Duration(p) > max_duration

FromInitialSegment(c) ==
    \/ c[3] = <<>>
    \/ c[3][1] = peak_times[1] /\ peak_times[1][2] <= max_duration

\* C18: every candidate clip ends at the end of its last absorbed peak; a clip
\* built from the initial running segment starts at time 0, also when the
\* first peak starts later, and every other clip starts at the start of its
\* first absorbed peak; a clip that absorbed no peak is the initial segment
\* (0,0) and is emitted only when min_duration <= 0, so when min_duration > 0
\* every emitted clip has rating >= 1.
C18_ClipBoundsFollowPeaks ==
    \A i \in 1..Len(cuts) :
        LET c == cuts[i]
            n == Len(c[3])
        IN  /\ n > 0 => c[2] = c[3][n][2]
            /\ n = 0 => (i = 1 /\ c[1] = 0 /\ c[2] = 0 /\ min_duration <= 0)
            /\ c[1] = (IF FromInitialSegment(c) THEN 0 ELSE c[3][1][1])
            /\ min_duration > 0 => rate_clip(c[3]) >= 1

\* with min_duration > 0 and a first peak that starts after 0: the first clip
\* starts at 0, before its first peak, and a later clip, seeded after a gap,
\* starts at its first peak and ends at its last
C18_Witness ==
    /\ pc = "segmented"
    /\ min_duration > 0
    /\ Len(cuts) >= 2
    /\ peak_times[1][1] > 0
    /\ cuts[1][1] = 0
    /\ cuts[1][3][1] = peak_times[1]
    /\ Len(cuts[2][3]) >= 2
    /\ cuts[2][1] = cuts[2][3][1][1]
    /\ cuts[2][1] > cuts[1][2]

\* the file f holds a finished export of the entries es
HoldsExportOf(f, es) ==
    files'[f] = [i \in 1..Len(es) |-> <<es[i][1], es[i][2]>>]

\* the step property of C19, stated below
ExportBeforeAppendStep ==
    pc \in LastPrompts \cup {"MIDDLE_END"} =>
      LET added == SubSeq(clips', Len(clips) + 1, Len(clips')) IN
        /\ IsPrefix(clips, clips')
        /\ exception' # "" => clips' = clips
        /\ clips' # clips =>
              /\ exception' = ""
              /\ Len(added) = (IF pc = "MIDDLE_END" THEN 2 ELSE 1)
              /\ \E f \in NewFiles : HoldsExportOf(f, added)

\* C19: in modify_clip an entry is appended to the clip list only after its
\* export has completed: when the encode raises, the clip list is exactly what
\* it was before the command, for Add, Trim and Trim Middle alike; Trim Middle
\* appends both halves or none.
C19_AppendAfterExport == [][ExportBeforeAppendStep]_vars

\* after one edit that succeeded, the encode of a Trim Middle of entry 2 raised
\* and left a partial file: the list holds the two entries it held before
C19_Witness ==
    /\ pc = "crashed"
    /\ exception = "EncodeError"
    /\ clip_index = 2
    /\ Len(clips) = 2
    /\ <<"middle_trimmed", 2, 1>> \in DOMAIN files
    /\ files[<<"middle_trimmed", 2, 1>>] = <<>>

====
